---- MODULE Spec2Model ----
(***************************************************************************)
(* Model of src/Histogram.hpp (namespace Histogram).                       *)
(*                                                                         *)
(* TValue is instantiated as int: sample values and range bounds are       *)
(* integers below 2^24 in size, the subtractions values[i] - rangeMin and  *)
(* rangeMax - rangeMin are done in int and their conversion to float is    *)
(* exact.  HistogramType is a vector of float counts; every count of the   *)
(* model is a small natural, which float represents exactly.               *)
(* The float binWidth is kept as a single-precision                        *)
(* value [neg, m, s], standing for (-1)^neg * m / 2^s with a 24-bit        *)
(* mantissa m, and the quotient of line 93 is rounded as the float         *)
(* division rounds it.  The float returned by HistogramIntersection is     *)
(* kept as the fraction [num, den] of its two float operands.              *)
(* Vectors are 0-based in the source and 1-based here: bins[b] of the      *)
(* source is bins[b + 1] of the model.                                     *)
(***************************************************************************)
EXTENDS Integers, Sequences, FiniteSets

VARIABLES
  op,                     \* the function under call
  pc,                     \* position of the call
  values,                 \* ScalarHistogram: values
  numberOfBins,           \* numberOfBins / numberOfBinsPerDimensions
  rangeMin,               \* rangeMin
  rangeMax,               \* rangeMax
  image,                  \* Compute1D...: image
  region,                 \* Compute1D...: region
  channel,                \* Compute1D...: loop counter
  concatenatedHistograms, \* Compute1D...: local accumulator
  histogram1,             \* HistogramIntersection: histogram1
  histogram2,             \* HistogramIntersection: histogram2
  cerr,                   \* lines written to std::cerr
  outcome                 \* how the call ended: pending, return or throw

vars == <<op, pc, values, numberOfBins, rangeMin, rangeMax, image, region,
          channel, concatenatedHistograms, histogram1, histogram2, cerr,
          outcome>>

----------------------------------------------------------------------------
(* Bounds of the model *)

MaxValue == 3
MaxLen == 3
MaxBins == 14
MaxBinsPerDimension == 2
MaxChannels == 2
MaxPixels == 1
MaxPixelValue == 1
MaxHistLen == 2
MaxCount == 2

TValue == 0..MaxValue
PixelValue == 0..MaxPixelValue

\* Samples and range bounds that need all 24 bits of a float mantissa
LargeTop == 7 * 2^21
LargeValues == {0, LargeTop - 1, LargeTop}
LargeBounds == {0, LargeTop}

\* Sequences over S of length at most n
SeqsUpTo(S, n) == UNION {[1..k -> S] : k \in 0..n}

----------------------------------------------------------------------------
(* Call outcomes *)

Pending == [kind |-> "pending"]
Return(v) == [kind |-> "return", value |-> v]
Throw(w) == [kind |-> "throw", what |-> w]

----------------------------------------------------------------------------
(* Arithmetic helpers *)

Abs(x) == IF x < 0 THEN 0 - x ELSE x

\* Mutant of Min: std::max in place of std::min
Min_AsMax(a, b) == IF b < a THEN a ELSE b

Min(a, b) == IF b < a THEN b ELSE a

RECURSIVE Accumulate(_, _)
Accumulate(s, init) ==
  IF s = << >> THEN init ELSE Accumulate(Tail(s), init + Head(s))

----------------------------------------------------------------------------
(* Single-precision arithmetic *)

\* Bits of the mantissa of a float
MantissaBits == 24

\* The least s >= s0 with x * 2^(s - s0) >= limit
RECURSIVE Scale(_, _, _)
Scale(x, limit, s0) ==
  IF x >= limit THEN s0 ELSE Scale(2 * x, limit, s0 + 1)

\* x / y rounded to the nearest integer, ties to even
RoundHalfEven(x, y) ==
  LET q == x \div y
      r == x % y
  IN IF 2 * r < y THEN q
     ELSE IF 2 * r > y THEN q + 1
     ELSE IF q % 2 = 0 THEN q ELSE q + 1

\* The float a / static_cast<float>(b) for an int a below 2^24 in size and
\* b > 0
FloatQuotient(a, b) ==
  IF a = 0 THEN [neg |-> FALSE, m |-> 0, s |-> 0]
  ELSE LET s == Scale(Abs(a), b * 2^(MantissaBits - 1), 0)
           m == RoundHalfEven(Abs(a) * 2^s, b)
       IN IF m = 2^MantissaBits
          THEN [neg |-> a < 0, m |-> 2^(MantissaBits - 1), s |-> s - 1]
          ELSE [neg |-> a < 0, m |-> m, s |-> s]

\* The least c with 2^c >= t
RECURSIVE CeilLog2(_, _)
CeilLog2(t, c) == IF 2^c >= t THEN c ELSE CeilLog2(t, c + 1)

\* The int made from the float d / f, for an int d and a float f # 0: the
\* exact quotient lies between k and k + 1; the float division rounds it up
\* to k + 1 when it is within half a unit in the last place of k + 1, and
\* the conversion to int truncates toward zero.
TruncatedQuotient(d, f) ==
  LET a == Abs(d) * 2^f.s
      k == a \div f.m
      r == a % f.m
      halfUlps == 2^(MantissaBits + 1 - CeilLog2(k + 1, 0))
      mag == IF r # 0 /\ f.m - r <= f.m \div halfUlps THEN k + 1 ELSE k
  IN IF (d < 0) = f.neg THEN mag ELSE 0 - mag

----------------------------------------------------------------------------
(* ScalarHistogram *)

\* Histogram::HistogramType bins(numberOfBins, 0)
ZeroBins(n) == [b \in 1..n |-> 0]

\* binWidth = (rangeMax - rangeMin) / static_cast<float>(numberOfBins)
BinWidth(n, lo, hi) == FloatQuotient(hi - lo, n)

\* 1e-6 is 1 / OneOverTolerance
OneOverTolerance == 1000000

\* fabs(binWidth - 0.0f) < 1e-6
IsZeroWidth(binWidth) ==
  binWidth.m <= (2^binWidth.s - 1) \div OneOverTolerance

\* int bin = (values[i] - rangeMin) / binWidth
BinOf(v, lo, binWidth) == TruncatedQuotient(v - lo, binWidth)

\* bins[index]++
Increment(bins, index) == [bins EXCEPT ![index + 1] = @ + 1]

\* The text of the runtime_error, as the fields it prints
BinError(bin, vals, lo, hi, i, binWidth) ==
  [bin |-> bin, size |-> Len(vals), rangeMin |-> lo, rangeMax |-> hi,
   i |-> i, value |-> vals[i + 1], binWidth |-> binWidth]

\* Mutant of IsTopOfRange: the special case of the top of the range is missing
IsTopOfRange_Never(v, hi) == FALSE

\* values[i] == rangeMax
IsTopOfRange(v, hi) == v = hi

\* The for loop over values, from index i with the counts bins
RECURSIVE BinLoop(_, _, _, _, _, _, _)
BinLoop(vals, n, lo, hi, binWidth, i, bins) ==
  IF ~(i < Len(vals)) THEN Return(bins)
  ELSE IF IsTopOfRange(vals[i + 1], hi)
  THEN BinLoop(vals, n, lo, hi, binWidth, i + 1,
               Increment(bins, Len(bins) - 1))
  ELSE LET bin == BinOf(vals[i + 1], lo, binWidth)
       IN IF bin < 0
          THEN Throw(BinError(bin, vals, lo, hi, i, binWidth))
          ELSE IF bin >= n
          THEN Throw(BinError(bin, vals, lo, hi, i, binWidth))
          ELSE BinLoop(vals, n, lo, hi, binWidth, i + 1,
                       Increment(bins, bin))

\* Mutant of ScalarHistogram: a zero-width range returns an empty vector
ScalarHistogram_EmptyOnZeroWidth(vals, n, lo, hi) ==
  LET binWidth == BinWidth(n, lo, hi)
  IN IF IsZeroWidth(binWidth)
     THEN Return(<< >>)
     ELSE BinLoop(vals, n, lo, hi, binWidth, 0, ZeroBins(n))

ScalarHistogram(vals, n, lo, hi) ==
  LET binWidth == BinWidth(n, lo, hi)
  IN IF IsZeroWidth(binWidth)
     THEN Return(ZeroBins(n))
     ELSE BinLoop(vals, n, lo, hi, binWidth, 0, ZeroBins(n))

----------------------------------------------------------------------------
(* Compute1DConcatenatedHistogramOfMultiChannelImage *)

\* image->GetNumberOfComponentsPerPixel()
GetNumberOfComponentsPerPixel(img) == img.components

\* ITKHelpers::ExtractChannel: the scalar image of one component
ExtractChannel(img, c) == [p \in 1..Len(img.pixels) |-> img.pixels[p][c + 1]]

\* ITKHelpers::GetPixelValuesInRegion: the pixels of the region, in order
GetPixelValuesInRegion(scalarImage, reg) ==
  [k \in 1..reg.size |-> scalarImage[reg.index + k]]

\* Mutant of InsertAtEnd: the histogram is inserted at begin()
InsertAtEnd_AtBegin(concatenated, histogram) == histogram \o concatenated

\* concatenatedHistograms.insert(concatenatedHistograms.end(), ...)
InsertAtEnd(concatenated, histogram) == concatenated \o histogram

----------------------------------------------------------------------------
(* HistogramIntersection *)

\* totalIntersection: the sum over the bins of std::min(frequency1, frequency2)
RECURSIVE TotalIntersection(_, _, _)
TotalIntersection(h1, h2, bin) ==
  IF ~(bin < Len(h1)) THEN 0
  ELSE Min(h1[bin + 1], h2[bin + 1]) + TotalIntersection(h1, h2, bin + 1)

\* Mutant of TotalFrequency: the accumulated range stops one bin early
TotalFrequency_DropLast(h1) ==
  Accumulate(SubSeq(h1, 1, Len(h1) - 1), 0)

\* std::accumulate(histogram1.begin(), histogram1.begin() + size, 0.0f)
TotalFrequency(h1) == Accumulate(h1, 0)

\* The float totalIntersection / totalFrequency, as a fraction (0/0 is NaN)
Divide(a, b) == [num |-> a, den |-> b]

\* return 0
Zero == [num |-> 0, den |-> 1]

SizeMessage == "Histograms must be the same size!"

\* Mutant of HistogramIntersection: only a longer histogram1 is reported
HistogramIntersection_OneSidedSizeCheck(h1, h2) ==
  IF Len(h1) > Len(h2)
  THEN [cerr |-> <<SizeMessage>>, value |-> Zero]
  ELSE [cerr |-> << >>,
        value |-> Divide(TotalIntersection(h1, h2, 0), TotalFrequency(h1))]

HistogramIntersection(h1, h2) ==
  IF Len(h1) # Len(h2)
  THEN [cerr |-> <<SizeMessage>>, value |-> Zero]
  ELSE [cerr |-> << >>,
        value |-> Divide(TotalIntersection(h1, h2, 0), TotalFrequency(h1))]

----------------------------------------------------------------------------
(* Inputs *)

Images ==
  UNION {[components : {c}, pixels : [1..w -> [1..c -> PixelValue]]] :
           c \in 1..MaxChannels, w \in 0..MaxPixels}

Regions(img) ==
  {r \in [index : 0..Len(img.pixels), size : 0..Len(img.pixels)] :
     /\ r.index + r.size <= Len(img.pixels)
     /\ r.size = 0 => r.index = 0}

Histograms == SeqsUpTo(0..MaxCount, MaxHistLen)

NoImage == [components |-> 1, pixels |-> << >>]
NoRegion == [index |-> 0, size |-> 0]

InitScalar ==
  /\ op = "ScalarHistogram"
  /\ numberOfBins \in 1..MaxBins
  /\ \/ /\ values \in SeqsUpTo(TValue, MaxLen)
        /\ rangeMin \in TValue
        /\ rangeMax \in TValue
     \/ /\ values \in SeqsUpTo(LargeValues, MaxLen)
        /\ rangeMin \in LargeBounds
        /\ rangeMax \in LargeBounds
  /\ image = NoImage /\ region = NoRegion
  /\ histogram1 = << >> /\ histogram2 = << >>

InitMultiChannel ==
  /\ op = "Compute1DConcatenatedHistogramOfMultiChannelImage"
  /\ image \in Images
  /\ region \in Regions(image)
  /\ numberOfBins \in 1..MaxBinsPerDimension
  /\ rangeMin \in TValue
  /\ rangeMax \in TValue
  /\ values = << >>
  /\ histogram1 = << >> /\ histogram2 = << >>

InitIntersection ==
  /\ op = "HistogramIntersection"
  /\ histogram1 \in Histograms
  /\ histogram2 \in Histograms
  /\ values = << >> /\ numberOfBins = 1 /\ rangeMin = 0 /\ rangeMax = 0
  /\ image = NoImage /\ region = NoRegion

Init ==
  /\ pc = "start"
  /\ channel = 0
  /\ concatenatedHistograms = << >>
  /\ cerr = << >>
  /\ outcome = Pending
  /\ \/ InitScalar
     \/ InitMultiChannel
     \/ InitIntersection

----------------------------------------------------------------------------
(* Actions *)

inputs == <<op, values, numberOfBins, rangeMin, rangeMax, image, region,
            histogram1, histogram2>>

\* A call of ScalarHistogram
CallScalarHistogram ==
  /\ op = "ScalarHistogram" /\ pc = "start"
  /\ outcome' = ScalarHistogram(values, numberOfBins, rangeMin, rangeMax)
  /\ pc' = "done"
  /\ UNCHANGED <<inputs, channel, concatenatedHistograms, cerr>>

\* Entry of Compute1D...: the accumulator is empty and channel is 0
MultiChannelEnter ==
  /\ op = "Compute1DConcatenatedHistogramOfMultiChannelImage" /\ pc = "start"
  /\ concatenatedHistograms' = << >>
  /\ channel' = 0
  /\ pc' = "loop"
  /\ UNCHANGED <<inputs, cerr, outcome>>

\* Mutant of MultiChannelIteration: the error of a channel is caught and the
\* loop goes on with the next channel
MultiChannelIteration_CatchAndContinue ==
  /\ op = "Compute1DConcatenatedHistogramOfMultiChannelImage" /\ pc = "loop"
  /\ channel < GetNumberOfComponentsPerPixel(image)
  /\ LET extractedChannel == ExtractChannel(image, channel)
         pixelValues == GetPixelValuesInRegion(extractedChannel, region)
         histogram == ScalarHistogram(pixelValues, numberOfBins,
                                      rangeMin, rangeMax)
     IN IF histogram.kind = "throw"
        THEN /\ channel' = channel + 1
             /\ UNCHANGED <<pc, outcome, concatenatedHistograms>>
        ELSE /\ concatenatedHistograms' =
                  InsertAtEnd(concatenatedHistograms, histogram.value)
             /\ channel' = channel + 1
             /\ UNCHANGED <<pc, outcome>>
  /\ UNCHANGED <<inputs, cerr>>

\* One iteration of the loop over the channels
MultiChannelIteration ==
  /\ op = "Compute1DConcatenatedHistogramOfMultiChannelImage" /\ pc = "loop"
  /\ channel < GetNumberOfComponentsPerPixel(image)
  /\ LET extractedChannel == ExtractChannel(image, channel)
         pixelValues == GetPixelValuesInRegion(extractedChannel, region)
         histogram == ScalarHistogram(pixelValues, numberOfBins,
                                      rangeMin, rangeMax)
     IN IF histogram.kind = "throw"
        THEN /\ outcome' = histogram
             /\ pc' = "done"
             /\ UNCHANGED <<channel, concatenatedHistograms>>
        ELSE /\ concatenatedHistograms' =
                  InsertAtEnd(concatenatedHistograms, histogram.value)
             /\ channel' = channel + 1
             /\ UNCHANGED <<pc, outcome>>
  /\ UNCHANGED <<inputs, cerr>>

\* return concatenatedHistograms
MultiChannelReturn ==
  /\ op = "Compute1DConcatenatedHistogramOfMultiChannelImage" /\ pc = "loop"
  /\ ~(channel < GetNumberOfComponentsPerPixel(image))
  /\ outcome' = Return(concatenatedHistograms)
  /\ pc' = "done"
  /\ UNCHANGED <<inputs, channel, concatenatedHistograms, cerr>>

\* A call of HistogramIntersection
CallHistogramIntersection ==
  /\ op = "HistogramIntersection" /\ pc = "start"
  /\ LET r == HistogramIntersection(histogram1, histogram2)
     IN /\ outcome' = Return(r.value)
        /\ cerr' = cerr \o r.cerr
  /\ pc' = "done"
  /\ UNCHANGED <<inputs, channel, concatenatedHistograms>>

Next ==
  \/ CallScalarHistogram
  \/ MultiChannelEnter
  \/ MultiChannelIteration
  \/ MultiChannelReturn
  \/ CallHistogramIntersection

Spec == Init /\ [][Next]_vars

----------------------------------------------------------------------------
(* Vocabulary of the properties *)

RECURSIVE SumOf(_)
SumOf(s) == IF Len(s) = 0 THEN 0 ELSE s[1] + SumOf(Tail(s))

ScalarDone == op = "ScalarHistogram" /\ pc = "done"

MultiChannelDone ==
  op = "Compute1DConcatenatedHistogramOfMultiChannelImage" /\ pc = "done"

IntersectionDone == op = "HistogramIntersection" /\ pc = "done"

InRange(v) == rangeMin <= v /\ v <= rangeMax

AllInRange == \A i \in 1..Len(values) : InRange(values[i])

SomeOutOfRange == \E i \in 1..Len(values) : ~InRange(values[i])

\* The zero-width test of the code (line 77) on the float binWidth of the
\* call (line 75): fabs(binWidth - 0.0f) < 1e-6
ZeroWidthRange == IsZeroWidth(BinWidth(numberOfBins, rangeMin, rangeMax))

\* The number of samples equal to rangeMax
TopCount == Cardinality({i \in 1..Len(values) : values[i] = rangeMax})

\* Sample v lies in the half-open interval of bin b:
\* rangeMin + b * binWidth <= v < rangeMin + (b + 1) * binWidth
InBinInterval(v, b) ==
  /\ b * (rangeMax - rangeMin) <= (v - rangeMin) * numberOfBins
  /\ (v - rangeMin) * numberOfBins < (b + 1) * (rangeMax - rangeMin)

\* The reference count of bin b
ReferenceCount(b) ==
  Cardinality({i \in 1..Len(values) :
                 values[i] # rangeMax /\ InBinInterval(values[i], b)})
  + (IF b = numberOfBins - 1 THEN TopCount ELSE 0)

\* The samples of channel c inside the region
ChannelSamples(c) ==
  [k \in 1..region.size |-> image.pixels[region.index + k][c + 1]]

ChannelHistogram(c) ==
  ScalarHistogram(ChannelSamples(c), numberOfBins, rangeMin, rangeMax)

ChannelsOfImage == 0..(image.components - 1)

ThrowingChannels == {c \in ChannelsOfImage : ChannelHistogram(c).kind = "throw"}

\* The least member of a non-empty set of channels
First(channels) == CHOOSE c \in channels : \A d \in channels : c <= d

\* The sum over the bins of the smaller of the two counts
SumOfMinima ==
  SumOf([b \in 1..Len(histogram1) |->
           IF histogram1[b] <= histogram2[b] THEN histogram1[b]
                                             ELSE histogram2[b]])

----------------------------------------------------------------------------
(* Properties *)

\* C1, for the ranges the code does not treat as zero-width: with all
\* samples in [rangeMin, rangeMax], ScalarHistogram returns numberOfBins
\* counts that sum to the number of samples.
C1_InRangeTotal ==
  (ScalarDone /\ AllInRange /\ ~ZeroWidthRange) =>
    /\ outcome.kind = "return"
    /\ Len(outcome.value) = numberOfBins
    /\ SumOf(outcome.value) = Len(values)

\* C2: with rangeMin < rangeMax, a call of ScalarHistogram with a sample
\* below rangeMin or above rangeMax ends in the runtime_error.
C2_OutOfRangeThrows ==
  (ScalarDone /\ rangeMin < rangeMax /\ SomeOutOfRange) =>
    outcome.kind = "throw"

\* C3 as stated: a sample equal to rangeMax is never the offending value of
\* the error, and every such sample is counted in the last bin.
C3_AsStated ==
  ScalarDone =>
    /\ outcome.kind = "throw" => outcome.what.value # rangeMax
    /\ outcome.kind = "return" => outcome.value[numberOfBins] >= TopCount

\* C3 amended: unless the zero-width test of the code holds of the float
\* binWidth, a sample equal to rangeMax is never the offending value of the
\* error, and every such sample is counted in the last bin.
C3_TopOfRangeInLastBin ==
  (ScalarDone /\ ~ZeroWidthRange) =>
    /\ outcome.kind = "throw" => outcome.what.value # rangeMax
    /\ outcome.kind = "return" => outcome.value[numberOfBins] >= TopCount

C3_Witness ==
  /\ ScalarDone /\ ~ZeroWidthRange
  /\ rangeMin < rangeMax
  /\ \E i \in 1..Len(values) : values[i] = rangeMin
  /\ numberOfBins >= 2
  /\ TopCount >= 2
  /\ outcome.kind = "return"
  /\ outcome.value[numberOfBins] = TopCount

\* C4: when the zero-width test of the code holds of the float binWidth,
\* ScalarHistogram returns numberOfBins zeros, whatever the samples are.
C4_ZeroWidthAllZero ==
  (ScalarDone /\ ZeroWidthRange) =>
    outcome = Return([b \in 1..numberOfBins |-> 0])

C4_Witness ==
  /\ ScalarDone /\ ZeroWidthRange
  /\ numberOfBins >= 2
  /\ SomeOutOfRange
  /\ TopCount >= 1
  /\ outcome.kind = "return"

\* C5: when no channel throws, the result has C * k entries and its slice
\* [c * k, (c + 1) * k) is the ScalarHistogram of channel c's region
\* samples, channels in increasing order.
C5_ConcatenationOfChannels ==
  (MultiChannelDone /\ outcome.kind = "return") =>
    /\ Len(outcome.value) = image.components * numberOfBins
    /\ \A c \in ChannelsOfImage :
         /\ ChannelHistogram(c).kind = "return"
         /\ SubSeq(outcome.value, c * numberOfBins + 1,
                   (c + 1) * numberOfBins) = ChannelHistogram(c).value

C5_Witness ==
  /\ MultiChannelDone /\ outcome.kind = "return"
  /\ image.components >= 2
  /\ region.size >= 1
  /\ numberOfBins >= 2
  /\ ChannelHistogram(0).value # ChannelHistogram(1).value

\* C6: when the ScalarHistogram of some channel throws, the call ends with
\* the error of the first such channel and returns nothing; the loop has
\* stopped at that channel, with the bins of the earlier channels only.
C6_ErrorAborts ==
  MultiChannelDone =>
    LET throwing == ThrowingChannels
    IN throwing # {} =>
         LET first == First(throwing)
         IN /\ outcome = ChannelHistogram(first)
            /\ outcome.kind = "throw"
            /\ channel = first
            /\ Len(concatenatedHistograms) = first * numberOfBins

C6_Witness ==
  /\ MultiChannelDone
  /\ image.components >= 2
  /\ ThrowingChannels = {1}
  /\ Len(concatenatedHistograms) = numberOfBins
  /\ outcome.kind = "throw"

\* C7: for equal-length histograms with sum(h1) > 0 the result is the sum
\* of the per-bin minima over sum(h1), and it lies in [0, 1].
C7_NormalizedIntersection ==
  (IntersectionDone /\ Len(histogram1) = Len(histogram2)
     /\ SumOf(histogram1) > 0) =>
    /\ outcome = Return([num |-> SumOfMinima, den |-> SumOf(histogram1)])
    /\ 0 <= outcome.value.num
    /\ outcome.value.num <= outcome.value.den

C7_Witness ==
  /\ IntersectionDone /\ Len(histogram1) = Len(histogram2)
  /\ SumOf(histogram1) > 0
  /\ \E a, b \in 1..Len(histogram1) :
       histogram1[a] < histogram2[a] /\ histogram2[b] < histogram1[b]
  /\ 0 < outcome.value.num /\ outcome.value.num < outcome.value.den

\* C8: HistogramIntersection(h, h) is 1.0 when h has positive total mass.
C8_SelfIntersectionIsOne ==
  (IntersectionDone /\ histogram1 = histogram2 /\ SumOf(histogram1) > 0) =>
    /\ outcome.kind = "return"
    /\ outcome.value.den # 0
    /\ outcome.value.num = outcome.value.den

C8_Witness ==
  /\ IntersectionDone /\ histogram1 = histogram2
  /\ Len(histogram1) >= 2
  /\ histogram1[1] # histogram1[2]
  /\ SumOf(histogram1) > 0
  /\ outcome.kind = "return"

\* C9: with histograms of different lengths the call writes the size
\* message to cerr and returns 0, also when h1 sums to 0.
C9_SizeMismatchReturnsZero ==
  (IntersectionDone /\ Len(histogram1) # Len(histogram2)) =>
    /\ outcome = Return([num |-> 0, den |-> 1])
    /\ cerr = <<"Histograms must be the same size!">>

C9_Witness ==
  /\ IntersectionDone /\ Len(histogram1) # Len(histogram2)
  /\ SumOf(histogram1) = 0
  /\ Len(histogram1) >= 1
  /\ SumOf(histogram2) > 0
  /\ cerr # << >>

\* C10: with a range the code does not treat as zero-width and all samples in
\* [rangeMin, rangeMax], bin b holds the number of samples v # rangeMax with
\* rangeMin + b * binWidth <= v < rangeMin + (b + 1) * binWidth, plus, in
\* the last bin, the samples equal to rangeMax.
C10_ReferenceCounts ==
  (ScalarDone /\ ~ZeroWidthRange /\ AllInRange) =>
    /\ outcome.kind = "return"
    /\ \A b \in 0..(numberOfBins - 1) :
         outcome.value[b + 1] = ReferenceCount(b)

====
